---- MODULE Spec2Model ----
(***************************************************************************)
(* Model of the rustzban-node session manager (src/session/mod.rs), the    *)
(* Xray process supervisor (src/xray/process.rs) and the log ring buffer   *)
(* (src/xray/logs.rs).                                                     *)
(*                                                                         *)
(* Request handlers run as concurrent tokio tasks on one shared            *)
(* SessionManager (src/api/handlers.rs), so every lock operation of a      *)
(* handler is one atomic step and steps of different calls interleave.     *)
(* A critical section that contains no await is one step: nothing can      *)
(* observe its inside.                                                     *)
(***************************************************************************)
EXTENDS Integers, Sequences, FiniteSets, TLC

\* ------------------------------------------------------------------ bounds
\* number of concurrent request handlers
NumCallers == 2
\* number of connect calls of a run (fresh UUIDs drawn)
MaxTokens == 2
\* number of core processes a run may spawn
MaxProcs == 2
\* capacity of the supervisor's log buffer in the concurrent model
MaxLogs == 2
\* polls of the startup confirmation loop before the 3 s window has elapsed
MaxPolls == 1
\* number of request handlers (peers) that issue the calls of a run whose
\* calls are issued one at a time
NumSeqCallers == 1
\* number of session calls of a run whose calls are issued one at a time
MaxCalls == 3
\* number of session calls of a run whose calls overlap
MaxOverlapCalls == 3
\* capacities of the LogsBuffer taken on its own: 1..MaxCap
MaxCap == 2
\* number of lines pushed into the LogsBuffer taken on its own
MaxPushes == 5
\* number of taps a TempLogsManager run creates
MaxTaps == 2
\* number of push_to_all calls of a TempLogsManager run
MaxTapPushes == 3
\* capacity of a tap's buffer in the model (push_to_all evicts at 100)
MaxTapLen == 2
\* number of pop_log calls of a TempLogsManager run
MaxPops == 2
\* number of polling cycles of a log stream
MaxCycles == 2
\* number of callbacks registered in each of the supervisor's callback lists
MaxCallbacks == 1
\* length of the inbounds list of an input document
MaxInbounds == 2
\* length of the routing.rules list of an input document
MaxRules == 2
\* number of times the transformer is run on a document
MaxRuns == 2

\* ------------------------------------------------------- program constants
\* the scan of the startup confirmation protocol: logs.iter().rev().take(10)
ScanWindow == 10

Callers == 1..NumCallers
SeqCallers == 1..NumSeqCallers
Tokens == 1..MaxTokens
Pids == 1..MaxProcs
None == 0

\* the peer address of a caller's connection (ConnectInfo): caller c is peer c
PeerOf(c) == c

\* core_version, resolved once at construction and never changed
CoreVersion == "1.8.4"
\* A line of text is a sequence of tokens: " " is a whitespace character,
\* "M" is the text format!("Xray {} started", version), "e" is other text
Marker == "M"
\* the raw lines a core process writes to its standard output: the marker
\* line and a blank line
StdoutLines == {<<" ", "M">>, <<" ">>}
\* log.contains(&format!("Xray {} started", version))
ContainsMarker(line) == \E i \in 1..Len(line) : line[i] = Marker

\* the configuration texts a caller sends: a JSON object, well-formed JSON
\* whose top level is not an object, and text that is not JSON
Configs == {"object", "array", "malformed"}
\* serde_json::from_str(config_json) succeeds
WellFormed(cfg) == cfg \in {"object", "array"}
\* apply_api: self.config.as_object_mut() is Some
TopLevelObject(cfg) == cfg = "object"
\* a parse that accepts every text
ConfigParses_Any(cfg) == TRUE
\* XrayConfig::new succeeds: from_str, then apply_api
ConfigParses(cfg) == WellFormed(cfg) /\ TopLevelObject(cfg)

Ops == {"status", "connect", "disconnect", "ping", "start", "stop", "restart"}

VARIABLES
    \* SessionManager fields
    connected, client_ip, session_id,
    \* XrayCore fields; restartHolder is the owner of the restarting write guard
    process, restarting, restartHolder, logs_buffer, log_capture_handle,
    \* the OS processes spawned so far and the log-capture tasks
    procs, tasks,
    \* the call in flight at each request handler, and what the call that
    \* returned last returned to which handler
    frame, result,
    \* the next value of Uuid::new_v4, the number of calls issued
    nextId, calls,
    \* history: tokens that were the session token and were replaced or cleared
    retired,
    \* history: the token of the connect that returned last with no disconnect
    \* returned since, and the caller whose connect drew each token
    latest, owner,
    \* a LogsBuffer on its own: ring is its field buffer, ring_max_size its
    \* field max_size; pushed is history: every line pushed, in push order
    ring, ring_max_size, pushed,
    \* a TempLogsManager: the registry temp_buffers (the ids it maps), next_id,
    \* and the shared buffer of every tap created so far
    temp_buffers, next_id, tap_buffer,
    \* history: the number of push_to_all calls, the value of that number when
    \* each tap was created, and the taps that were dropped
    pushes, born, dropped,
    \* history: the tap and the returned value of each pop_log call, in call
    \* order
    popped,
    \* XrayCore's callback lists (the number of callbacks each holds), and
    \* history: how often each registered callback was invoked
    on_start_callbacks, on_stop_callbacks, start_invoked, stop_invoked,
    \* an XrayConfig: its document (field config) and its allow-list (field
    \* inbounds_filter); history: the document before the first apply_api, the
    \* document before the last one, and the number of apply_api runs
    xray_config, inbounds_filter, cfg_input, cfg_prev, cfg_runs,
    \* the member log of the XrayConfig's document, and the text the
    \* supervisor's start wrote to the standard input of the core it spawned
    config_log, core_stdin,
    \* the log stream of a websocket connection: its position, its token
    \* argument, the lines of its snapshot not yet sent; history: its cycles,
    \* the size of its last snapshot, and how many lines of that snapshot
    \* were appended after the snapshot before
    ws,
    \* history: the lines appended to the main buffer since the stream's last
    \* snapshot, counted up to the buffer's capacity
    ws_new

sessVars == <<connected, client_ip, session_id>>
coreVars == <<process, restarting, restartHolder, logs_buffer, log_capture_handle>>
envVars == <<procs, tasks>>
callVars == <<frame, result>>
histVars == <<nextId, calls, retired, latest, owner>>
bufVars == <<ring, ring_max_size, pushed>>
tapVars == <<temp_buffers, next_id, tap_buffer, pushes, born, dropped, popped>>
\* the log structures that stand alone: no session or supervisor code refers
\* to them
logVars == <<ring, ring_max_size, pushed, temp_buffers, next_id, tap_buffer,
             pushes, born, dropped, popped>>
cbVars == <<on_start_callbacks, on_stop_callbacks, start_invoked, stop_invoked>>
cfgVars == <<xray_config, inbounds_filter, cfg_input, cfg_prev, cfg_runs>>
stdinVars == <<config_log, core_stdin>>
\* what a step of a session call other than the supervisor's start and stop,
\* and a step of a capture task, leaves alone
wsVars == <<ws, ws_new>>
auxVars == <<logVars, cbVars, cfgVars, stdinVars, wsVars>>
vars == <<connected, client_ip, session_id, process, restarting, restartHolder,
          logs_buffer, log_capture_handle, procs, tasks, frame, result, nextId,
          calls, retired, latest, owner, ring, ring_max_size, pushed,
          temp_buffers, next_id, tap_buffer, pushes, born, dropped, popped,
          on_start_callbacks, on_stop_callbacks, start_invoked, stop_invoked,
          xray_config, inbounds_filter, cfg_input, cfg_prev, cfg_runs,
          config_log, core_stdin, ws, ws_new>>

\* ------------------------------------------------------------ LogsBuffer
\* a push that never evicts
push_NoEvict(buffer, max_size, line) == Append(buffer, line)

\* a push that drops every held line
push_DropsAll(buffer, max_size, line) == <<line>>

\* LogsBuffer::push: evict the oldest line at capacity, then append
push(buffer, max_size, line) ==
    IF Len(buffer) >= max_size
    THEN Append(Tail(buffer), line)
    ELSE Append(buffer, line)

\* LogsBuffer::get_all: every held line, oldest first
get_all(buffer) == buffer

\* ----------------------------------------------------------- OS processes
\* a spawned child: alive until it is seen to have exited or is killed; taken
\* says that a capture task took its stdout handle; cause is history: how it
\* ended.  What the child does on its own is resolved where the program
\* observes it: at a try_wait probe and at a read of its standard output.
\* by is history: the token argument of the call that spawned the child
NoProc == [spawned |-> FALSE, alive |-> FALSE, taken |-> FALSE, cause |-> "none",
           by |-> None]
FreshProc == [spawned |-> TRUE, alive |-> TRUE, taken |-> FALSE, cause |-> "none",
              by |-> None]

Alive(p) == p # None /\ procs[p].alive

\* the process RwLock: a capture task holds the write guard from the moment
\* it runs until its reading loop ends; every other use is await-free
ProcessLockFree == \A k \in Pids : tasks[k].st # "reading"

\* XrayCore::started under the lock: false with no child; else try_wait says
\* whether the child has exited, and a live child may have exited by now
started(running) ==
    IF process = None \/ ~procs[process].alive
    THEN running = FALSE /\ procs' = procs
    ELSE \/ running = TRUE /\ procs' = procs
         \/ /\ running = FALSE
            /\ procs' = [procs EXCEPT ![process].alive = FALSE,
                                      ![process].cause = "self"]

\* ------------------------------------------------------- log-capture task
NoTask == [st |-> "none", rd |-> None]

\* str::trim: drop the leading and the trailing whitespace of a line
RECURSIVE TrimStart(_)
TrimStart(line) ==
    IF line # <<>> /\ Head(line) = " " THEN TrimStart(Tail(line)) ELSE line

RECURSIVE TrimEnd(_)
TrimEnd(line) ==
    IF line # <<>> /\ line[Len(line)] = " "
    THEN TrimEnd(SubSeq(line, 1, Len(line) - 1))
    ELSE line

\* a trim that leaves the line as it is
Trim_None(line) == line

Trim(line) == TrimEnd(TrimStart(line))

\* first poll of the spawned task: take the process write lock, then
\* process.stdout.take(); with no child or no stdout the task ends at once
CaptureBegin(k) ==
    /\ tasks[k].st = "spawned"
    /\ ProcessLockFree
    /\ IF process # None /\ ~procs[process].taken
       THEN /\ tasks' = [tasks EXCEPT ![k] = [st |-> "reading", rd |-> process]]
            /\ procs' = [procs EXCEPT ![process].taken = TRUE]
       ELSE /\ tasks' = [tasks EXCEPT ![k].st = "finished"]
            /\ procs' = procs
    /\ UNCHANGED <<sessVars, coreVars, callVars, histVars>>
    /\ UNCHANGED auxVars

\* lines.next_line() yields a line the child wrote: trim, drop blank, push
CaptureLine(k, raw) ==
    /\ tasks[k].st = "reading"
    /\ LET line == Trim(raw)
       IN /\ logs_buffer' = IF line # <<>>
                            THEN push(logs_buffer, MaxLogs, line)
                            ELSE logs_buffer
          /\ ws_new' = IF line # <<>> /\ ws.pc \in {"check", "send"}
                            /\ ws_new < MaxLogs
                       THEN ws_new + 1
                       ELSE ws_new
    /\ UNCHANGED <<sessVars, process, restarting, restartHolder,
                   log_capture_handle, envVars, callVars, histVars>>
    /\ UNCHANGED <<logVars, cbVars, cfgVars, stdinVars, ws>>

\* lines.next_line() yields None: the child exited or closed its standard
\* output; the task ends and its write guard is dropped
CaptureEof(k) ==
    /\ tasks[k].st = "reading"
    /\ tasks' = [tasks EXCEPT ![k].st = "finished"]
    /\ UNCHANGED <<sessVars, coreVars, procs, callVars, histVars>>
    /\ UNCHANGED auxVars

\* ---------------------------------------------------------- call frames
\* the locals of a call: operation, position, arguments (token, config),
\* new_session_id, the spawned child, last_log, the polls done, the connected
\* flag read by create_response; hadConn and hadProc are history: the
\* connected flag and the live process of the handle when the call was issued;
\* newest is history: the newest line the buffer held at the last poll
IdleFrame == [op |-> "none", pc |-> "idle", token |-> None, config |-> "object",
              newId |-> None, child |-> None, lastLog |-> <<>>, polls |-> 0,
              respConnected |-> FALSE, hadConn |-> FALSE, hadProc |-> None,
              newest |-> <<>>]

\* what a call returned: a SessionResponse, Ok(()) or a SessionError
\* caller, op, token, hadConn, hadProc and newest are history: the call that
\* returned
NoResult == [caller |-> None, op |-> "none", token |-> None,
             hadConn |-> FALSE, hadProc |-> None, newest |-> <<>>,
             kind |-> "none", connected |-> FALSE, started |-> FALSE,
             session_id |-> None, text |-> <<>>]
Snapshot(conn, strt, sid) ==
    [NoResult EXCEPT !.kind = "response", !.connected = conn, !.started = strt,
                     !.session_id = sid]
Failure(err, txt) == [NoResult EXCEPT !.kind = err, !.text = txt]
Unit == [NoResult EXCEPT !.kind = "ok"]

\* ------------------------------------------------------------ XrayConfig
\* A JSON document is modelled by the four keys apply_api reads or writes:
\* inbounds, api, stats, routing. A key is "absent", holds a value of the type
\* apply_api looks for ("list", "object"), or holds an "other" value.
\* as_str() of a key that is absent or holds no string
NoTag == "<none>"

\* the sequences over S of length at most n
SeqsUpTo(S, n) == UNION {[1..k -> S] : k \in 0..n}

\* peer_ip, and api_host:api_port of the application configuration
PeerIp == "peer"
ApiListen == "api_host:api_port"

\* json!({"listen": api_host, "port": api_port, "protocol": "dokodemo-door",
\* .., "tag": "API_INBOUND"})
api_inbound == [obj |-> TRUE, protocol |-> "dokodemo-door",
                tag |-> "API_INBOUND", listen |-> ApiListen]

\* json!({"inboundTag": ["API_INBOUND"], "source": ["127.0.0.1", peer_ip],
\* "outboundTag": "API", "type": "field"})
api_rule(peer) == [obj |-> TRUE, outboundTag |-> "API",
                   inboundTag |-> <<"API_INBOUND">>,
                   source |-> <<"127.0.0.1", peer>>]

\* json!({"services": [..], "tag": "API"})
api_object == [kind |-> "object", tag |-> "API", services |-> "api_services"]

\* the elements of an input's inbounds list: the management inbound, an
\* inbound of another protocol that carries its tag, two tagged inbounds, an
\* inbound without a tag, and an element that is not an object
InboundElems ==
    {api_inbound,
     [obj |-> TRUE, protocol |-> "vmess", tag |-> "API_INBOUND", listen |-> "any"],
     [obj |-> TRUE, protocol |-> "vmess", tag |-> "vmess-in", listen |-> "any"],
     [obj |-> TRUE, protocol |-> "trojan", tag |-> "trojan-in", listen |-> "any"],
     [obj |-> TRUE, protocol |-> "vmess", tag |-> NoTag, listen |-> "any"],
     [obj |-> FALSE, protocol |-> NoTag, tag |-> NoTag, listen |-> NoTag]}

\* the elements of an input's routing.rules list: the management rule, a rule
\* of the user that targets "API", a rule that targets "direct", and a rule
\* without an outboundTag
RuleElems ==
    {api_rule(PeerIp),
     [obj |-> TRUE, outboundTag |-> "API", inboundTag |-> <<"vmess-in">>,
      source |-> <<>>],
     [obj |-> TRUE, outboundTag |-> "direct", inboundTag |-> <<"vmess-in">>,
      source |-> <<>>],
     [obj |-> TRUE, outboundTag |-> NoTag, inboundTag |-> <<"vmess-in">>,
      source |-> <<>>]}

\* the values under inbounds
Absent == [kind |-> "absent", items |-> <<>>]
Other == [kind |-> "other", items |-> <<>>]
List(items) == [kind |-> "list", items |-> items]
InboundsVals == {Absent, Other} \cup {List(l) : l \in SeqsUpTo(InboundElems, MaxInbounds)}

\* the values under api: absent, not an object, an object without a tag, an
\* object tagged "direct", the object apply_api writes
ApiVals ==
    {[kind |-> "absent", tag |-> NoTag, services |-> NoTag],
     [kind |-> "other", tag |-> NoTag, services |-> NoTag],
     [kind |-> "object", tag |-> NoTag, services |-> "any"],
     [kind |-> "object", tag |-> "direct", services |-> "any"],
     api_object}

\* the values under routing: absent, not an object, an object whose rules
\* are absent, not a list, or a list
RoutingVals ==
    {[kind |-> "absent", rules |-> Absent], [kind |-> "other", rules |-> Absent],
     [kind |-> "object", rules |-> Absent], [kind |-> "object", rules |-> Other]}
    \cup {[kind |-> "object", rules |-> List(l)] : l \in SeqsUpTo(RuleElems, MaxRules)}

\* the input documents whose top level is an object
Docs == [inbounds : InboundsVals, api : ApiVals, stats : {"absent"},
         routing : RoutingVals]

\* the document {}
EmptyDoc == [inbounds |-> Absent,
             api |-> [kind |-> "absent", tag |-> NoTag, services |-> NoTag],
             stats |-> "absent",
             routing |-> [kind |-> "absent", rules |-> Absent]]

\* the allow-lists (INBOUNDS of the application configuration)
AllowLists == {{}, {"vmess-in"}, {"vmess-in", "API_INBOUND"}}

\* a filter closure that ignores the allow-list
keep_inbound_NoFilter(e, filter) ==
    ~(e.obj /\ e.protocol = "dokodemo-door" /\ e.tag = "API_INBOUND")

\* the closure of inbounds_array.iter().filter(..)
keep_inbound(e, filter) ==
    IF e.obj
    THEN IF e.protocol = "dokodemo-door" /\ e.tag = "API_INBOUND"
         THEN FALSE
         ELSE IF filter # {} /\ e.tag # NoTag
              THEN e.tag \in filter
              ELSE TRUE
    ELSE TRUE

\* if let Some(inbounds_array) = inbounds.as_array_mut(): the filtered list
filter_inbounds(inbounds, filter) ==
    IF inbounds.kind = "list"
    THEN List(SelectSeq(inbounds.items, LAMBDA e : keep_inbound(e, filter)))
    ELSE inbounds

\* an api tag that is always "API"
api_tag_Fixed(doc) == "API"

\* config_obj.get("api").and_then(as_object).and_then(get("tag")).and_then(as_str)
api_tag(doc) == IF doc.api.kind = "object" THEN doc.api.tag ELSE NoTag

\* the closure of rules_array.retain(..)
retain_rule(rule, tag) ==
    IF rule.obj /\ rule.outboundTag # NoTag
    THEN rule.outboundTag # tag
    ELSE TRUE

\* the rules of the old management api are removed when routing is an
\* object, rules a list and the input has an api tag
filter_rules(routing, tag) ==
    IF routing.kind = "object" /\ routing.rules.kind = "list" /\ tag # NoTag
    THEN [routing EXCEPT !.rules =
             List(SelectSeq(routing.rules.items, LAMBDA r : retain_rule(r, tag)))]
    ELSE routing

\* inbounds_array.insert(0, api_inbound) when inbounds is a list, a new list
\* when the key is absent, nothing when it holds another value
insert_inbound(inbounds) ==
    CASE inbounds.kind = "list" -> List(<<api_inbound>> \o inbounds.items)
      [] inbounds.kind = "absent" -> List(<<api_inbound>>)
      [] OTHER -> inbounds

\* rules_array.insert(0, api_rule) when routing is an object and rules a
\* list; rules created when absent, routing created when absent; nothing when
\* routing is not an object or rules is not a list
insert_rule(routing, peer) ==
    CASE routing.kind = "absent" ->
             [kind |-> "object", rules |-> List(<<api_rule(peer)>>)]
      [] routing.kind = "object" /\ routing.rules.kind = "absent" ->
             [routing EXCEPT !.rules = List(<<api_rule(peer)>>)]
      [] routing.kind = "object" /\ routing.rules.kind = "list" ->
             [routing EXCEPT !.rules = List(<<api_rule(peer)>> \o routing.rules.items)]
      [] OTHER -> routing

\* XrayConfig::apply_api on a document whose top level is an object
apply_api(doc, filter, peer) ==
    [inbounds |-> insert_inbound(filter_inbounds(doc.inbounds, filter)),
     api |-> api_object,
     stats |-> "empty",
     routing |-> insert_rule(filter_rules(doc.routing, api_tag(doc)), peer)]

\* the values under log: absent, not an object, or an object whose logLevel
\* is absent (NoTag), not a string, or a string, and whose member access is
\* absent or a path
NoLog == [kind |-> "absent", logLevel |-> NoTag, access |-> NoTag]
NotString == "<not a string>"
LogLevels == {NoTag, NotString, "none", "error", "ERROR", "warning", "info",
              "debug"}
LogVals ==
    {NoLog, [kind |-> "other", logLevel |-> NoTag, access |-> NoTag]}
    \cup [kind : {"object"}, logLevel : LogLevels, access : {NoTag, "file"}]

\* a rewrite that raises every level
raise_log_level_Every(log) ==
    IF log.kind = "object" /\ log.logLevel \notin {NoTag, NotString}
    THEN [log EXCEPT !.logLevel = "warning"]
    ELSE log

\* XrayCore::start, the rewrite of log.logLevel before the core is spawned
raise_log_level(log) ==
    IF log.kind = "object" /\ log.logLevel \in {"none", "error"}
    THEN [log EXCEPT !.logLevel = "warning"]
    ELSE log

\* XrayConfig::to_json: the members the document has, in the order of their
\* keys, each as a pair of key and value
to_json(doc, log) ==
    LET members == << <<"api", doc.api>>, <<"inbounds", doc.inbounds>>,
                      <<"log", log>>, <<"routing", doc.routing>>,
                      <<"stats", doc.stats>> >>
        Present(m) == CASE m[1] \in {"inbounds", "log", "routing"} ->
                               m[2].kind # "absent"
                        [] m[1] = "api" -> m[2].kind # "absent"
                        [] OTHER -> m[2] # "absent"
    IN  SelectSeq(members, Present)

\* XrayConfig::new on document doc with allow-list filter, before apply_api
InitConfig(doc, filter) ==
    /\ xray_config = doc
    /\ inbounds_filter = filter
    /\ cfg_input = doc
    /\ cfg_prev = doc
    /\ cfg_runs = 0
    /\ config_log = NoLog

\* a callback is named by its position in its list
CallbackIds == 1..MaxCallbacks

\* XrayCore::new: on_start_callbacks and on_stop_callbacks are empty
InitCallbacks ==
    /\ on_start_callbacks = 0
    /\ on_stop_callbacks = 0
    /\ start_invoked = [i \in CallbackIds |-> 0]
    /\ stop_invoked = [i \in CallbackIds |-> 0]

\* ---------------------------------------------------------- Init
\* SessionManager::new and XrayCore::new
InitCore ==
    /\ connected = FALSE
    /\ client_ip = None
    /\ session_id = None
    /\ process = None
    /\ restarting = FALSE
    /\ restartHolder = None
    /\ logs_buffer = <<>>
    /\ log_capture_handle = None
    /\ procs = [p \in Pids |-> NoProc]
    /\ tasks = [k \in Pids |-> NoTask]
    /\ frame = [c \in Callers |-> IdleFrame]
    /\ result = NoResult
    /\ nextId = 1
    /\ calls = 0
    /\ retired = {}
    /\ latest = None
    /\ owner = [t \in Tokens |-> None]

\* ids of taps: next_id counts from 0
TapIds == 0..(MaxTaps - 1)

\* TempLogsManager::new: an empty registry, next_id = 0
InitTaps ==
    /\ temp_buffers = {}
    /\ next_id = 0
    /\ tap_buffer = [id \in TapIds |-> <<>>]
    /\ pushes = 0
    /\ born = [id \in TapIds |-> 0]
    /\ dropped = {}
    /\ popped = <<>>

\* LogsBuffer::new(max_size): an empty buffer
InitBuffer(size) ==
    /\ ring = <<>>
    /\ ring_max_size = size
    /\ pushed = <<>>

\* no websocket connection has been opened
NoStream == [pc |-> "closed", token |-> None, pending |-> <<>>, cycles |-> 0,
             taken |-> 0, fresh |-> 0]
InitWs == ws = NoStream /\ ws_new = 0

\* no core has been spawned: nothing was written to a core's standard input
InitStdin == core_stdin = <<>>

\* the service after construction; no configuration has been received
InitRest == InitCore /\ InitTaps /\ InitCallbacks /\ InitStdin /\ InitWs

Init == InitRest /\ InitBuffer(MaxLogs) /\ InitConfig(EmptyDoc, {})

\* a request handler invokes a SessionManager operation (handlers.rs);
\* disconnect starts with reads of the three fields that only feed a log line
FirstPc(o) == CASE o = "status" -> "resp_connected"
                [] o = "connect" -> "conn_read"
                [] o = "disconnect" -> "disc_w_sid"
                [] OTHER -> "match"

\* the run's budgets: connect calls that have yet to draw their UUID, and
\* start and restart calls that may yet spawn a process
DrawingId == {d \in Callers : frame[d].pc = "conn_read"}
MaySpawn == {d \in Callers :
                /\ frame[d].op \in {"start", "restart"}
                /\ frame[d].pc \in {"match", "get_ip", "rs_lock", "stop_probe",
                                    "stop_abort", "stop_kill", "start_probe",
                                    "start_spawn"}}
Unspawned == {p \in Pids : ~procs[p].spawned}

Call(c, o, t, cfg) ==
    /\ frame[c].pc = "idle"
    /\ o = "connect" => nextId + Cardinality(DrawingId) <= MaxTokens
    /\ o \in {"start", "restart"} =>
           Cardinality(Pids \ Unspawned) + Cardinality(MaySpawn) < MaxProcs
    /\ frame' = [frame EXCEPT ![c] =
                    [IdleFrame EXCEPT !.op = o, !.pc = FirstPc(o), !.token = t,
                                      !.config = cfg, !.hadConn = connected,
                                      !.hadProc = IF Alive(process)
                                                  THEN process ELSE None]]
    /\ calls' = calls + 1
    /\ UNCHANGED <<sessVars, coreVars, envVars, result, nextId, retired,
                   latest, owner>>
    /\ UNCHANGED auxVars

\* the arguments a request may carry, per operation
CallAny(c) ==
    \/ \E o \in {"status", "connect", "disconnect"} : Call(c, o, None, "object")
    \/ \E o \in {"ping", "stop"}, t \in Tokens : Call(c, o, t, "object")
    \/ \E o \in {"start", "restart"}, t \in Tokens, cfg \in Configs :
           Call(c, o, t, cfg)

\* the call moves on to the step at label
Goto(c, label) ==
    /\ frame' = [frame EXCEPT ![c].pc = label]
    /\ result' = result

\* the call returns r to its handler; its locals are dropped
Return(c, r) ==
    /\ frame' = [frame EXCEPT ![c] = IdleFrame]
    /\ result' = [r EXCEPT !.caller = c, !.op = frame[c].op,
                            !.token = frame[c].token,
                            !.hadConn = frame[c].hadConn,
                            !.hadProc = frame[c].hadProc,
                            !.newest = frame[c].newest]

\* a write of the session token; a token that stops being current is retired
SetSessionId(v) ==
    /\ session_id' = v
    /\ retired' = IF session_id # None /\ session_id # v
                  THEN retired \cup {session_id}
                  ELSE retired

\* --------------------------------------------------- SessionManager::ping
\* a check that accepts every token while some session exists
match_session_id_AnySession(t) == session_id # None

\* a check that accepts every token
match_session_id_Always(t) == TRUE

\* match_session_id: Ok exactly for the current token
match_session_id(t) == session_id # None /\ session_id = t

\* first step of ping, start, stop, restart: self.match_session_id(..)?
Match(c) ==
    /\ frame[c].pc = "match"
    /\ IF ~match_session_id(frame[c].token)
       THEN Return(c, Failure("SessionMismatch", <<>>))
       ELSE IF frame[c].op = "ping"
            THEN Return(c, Unit)
            ELSE Goto(c, IF frame[c].op = "stop" THEN "stop_probe" ELSE "get_ip")
    /\ UNCHANGED <<sessVars, coreVars, envVars, histVars>>
    /\ UNCHANGED auxVars

\* ------------------------------------------------ SessionManager::connect
\* Uuid::new_v4(), then was_connected = *self.connected.read()
ConnRead(c) ==
    /\ frame[c].pc = "conn_read"
    /\ frame' = [frame EXCEPT ![c].newId = nextId,
                              ![c].pc = IF connected THEN "conn_probe"
                                        ELSE "conn_w_connected"]
    /\ nextId' = nextId + 1
    /\ owner' = [owner EXCEPT ![nextId] = c]
    /\ UNCHANGED <<sessVars, coreVars, envVars, result, calls, retired, latest>>
    /\ UNCHANGED auxVars

\* if self.xray_core.started().await { self.xray_core.stop() }
ConnProbe(c) ==
    /\ frame[c].pc = "conn_probe"
    /\ ProcessLockFree
    /\ \E running \in BOOLEAN :
           /\ started(running)
           /\ Goto(c, IF running THEN "stop_probe" ELSE "conn_w_connected")
    /\ UNCHANGED <<sessVars, coreVars, tasks, histVars>>
    /\ UNCHANGED auxVars

\* *connected = true
ConnWriteConnected(c) ==
    /\ frame[c].pc = "conn_w_connected"
    /\ connected' = TRUE
    /\ Goto(c, "conn_w_ip")
    /\ UNCHANGED <<client_ip, session_id, coreVars, envVars, histVars>>
    /\ UNCHANGED auxVars

\* *client_ip_lock = Some(client_ip)
ConnWriteIp(c) ==
    /\ frame[c].pc = "conn_w_ip"
    /\ client_ip' = PeerOf(c)
    /\ Goto(c, "conn_w_sid")
    /\ UNCHANGED <<connected, session_id, coreVars, envVars, histVars>>
    /\ UNCHANGED auxVars

\* *session_id_lock = Some(new_session_id)
ConnWriteSid(c) ==
    /\ frame[c].pc = "conn_w_sid"
    /\ SetSessionId(frame[c].newId)
    /\ Goto(c, "resp_connected")
    /\ UNCHANGED <<connected, client_ip, coreVars, envVars, nextId, calls,
                   latest, owner>>
    /\ UNCHANGED auxVars

\* --------------------------------------------- SessionManager::disconnect
\* *session_id_lock = None
DiscWriteSid(c) ==
    /\ frame[c].pc = "disc_w_sid"
    /\ SetSessionId(None)
    /\ Goto(c, "disc_w_ip")
    /\ UNCHANGED <<connected, client_ip, coreVars, envVars, nextId, calls,
                   latest, owner>>
    /\ UNCHANGED auxVars

\* *client_ip_lock = None
DiscWriteIp(c) ==
    /\ frame[c].pc = "disc_w_ip"
    /\ client_ip' = None
    /\ Goto(c, "disc_w_connected")
    /\ UNCHANGED <<connected, session_id, coreVars, envVars, histVars>>
    /\ UNCHANGED auxVars

\* *connected = false
DiscWriteConnected(c) ==
    /\ frame[c].pc = "disc_w_connected"
    /\ connected' = FALSE
    /\ Goto(c, "disc_probe")
    /\ UNCHANGED <<client_ip, session_id, coreVars, envVars, histVars>>
    /\ UNCHANGED auxVars

\* a disconnect that leaves the core as it is
DiscProbeNoStop(c) ==
    /\ frame[c].pc = "disc_probe"
    /\ Goto(c, "resp_connected")
    /\ UNCHANGED <<sessVars, coreVars, envVars, histVars>>
    /\ UNCHANGED auxVars

\* if self.xray_core.started().await { self.xray_core.stop() }
DiscProbe(c) ==
    /\ frame[c].pc = "disc_probe"
    /\ ProcessLockFree
    /\ \E running \in BOOLEAN :
           /\ started(running)
           /\ Goto(c, IF running THEN "stop_probe" ELSE "resp_connected")
    /\ UNCHANGED <<sessVars, coreVars, tasks, histVars>>
    /\ UNCHANGED auxVars

\* ------------------------------------------------------- XrayCore::stop
\* where the caller of the supervisor's stop continues
AfterStop(c) == CASE frame[c].op = "connect" -> "conn_w_connected"
                  [] frame[c].op = "restart" -> "start_probe"
                  [] OTHER -> "resp_connected"

\* if !self.started().await { return Ok(()) }
StopProbe(c) ==
    /\ frame[c].pc = "stop_probe"
    /\ ProcessLockFree
    /\ \E running \in BOOLEAN :
           /\ started(running)
           /\ Goto(c, IF running THEN "stop_abort" ELSE AfterStop(c))
    /\ UNCHANGED <<sessVars, coreVars, tasks, histVars>>
    /\ UNCHANGED auxVars

\* JoinHandle::abort: a task that has not ended is cancelled at its await
Abort(k) ==
    IF k # None /\ tasks[k].st \in {"spawned", "reading"}
    THEN [tasks EXCEPT ![k].st = "aborted"]
    ELSE tasks

\* if let Some(handle) = self.log_capture_handle.write().await.take()
StopAbort(c) ==
    /\ frame[c].pc = "stop_abort"
    /\ tasks' = Abort(log_capture_handle)
    /\ log_capture_handle' = None
    /\ Goto(c, "stop_kill")
    /\ UNCHANGED <<sessVars, process, restarting, restartHolder, logs_buffer,
                   procs, histVars>>
    /\ UNCHANGED auxVars

\* a stop that drops the child without killing it
KillNot(p) == procs

\* Child::kill then Child::wait on the child taken from the handle
Kill(p) ==
    IF p # None
    THEN [procs EXCEPT ![p].alive = FALSE,
                       ![p].cause = IF procs[p].alive THEN "kill" ELSE @]
    ELSE procs

\* ------------------------------------------------------------- callbacks
\* XrayCore::on_start: callbacks.push(Box::new(callback))
on_start ==
    /\ on_start_callbacks < MaxCallbacks
    /\ on_start_callbacks' = on_start_callbacks + 1
    /\ UNCHANGED <<sessVars, coreVars, envVars, callVars, histVars, logVars,
                   cfgVars, stdinVars, wsVars, on_stop_callbacks, start_invoked,
                   stop_invoked>>

\* XrayCore::on_stop: callbacks.push(Box::new(callback))
on_stop ==
    /\ on_stop_callbacks < MaxCallbacks
    /\ on_stop_callbacks' = on_stop_callbacks + 1
    /\ UNCHANGED <<sessVars, coreVars, envVars, callVars, histVars, logVars,
                   cfgVars, stdinVars, wsVars, on_start_callbacks, start_invoked,
                   stop_invoked>>

\* the task execute_start_callbacks and execute_stop_callbacks spawn for a
\* registered callback: tokio::spawn(async move { }), the call of the
\* callback is commented out, so the number of its invocations stays
callback_task(count) == count

\* for _ in 0..callbacks_lock.len(): one such task per registered callback
execute_callbacks(registered, invoked) ==
    [i \in CallbackIds |->
        IF i <= registered THEN callback_task(invoked[i]) ELSE invoked[i]]

\* execute_start_callbacks
execute_start_callbacks ==
    /\ start_invoked' = execute_callbacks(on_start_callbacks, start_invoked)
    /\ UNCHANGED <<on_start_callbacks, on_stop_callbacks, stop_invoked>>

\* execute_stop_callbacks
execute_stop_callbacks ==
    /\ stop_invoked' = execute_callbacks(on_stop_callbacks, stop_invoked)
    /\ UNCHANGED <<on_start_callbacks, on_stop_callbacks, start_invoked>>

\* a stop that also clears the log buffer
StopKill_ClearsLogs(c) ==
    /\ frame[c].pc = "stop_kill"
    /\ ProcessLockFree
    /\ procs' = Kill(process)
    /\ process' = None
    /\ logs_buffer' = <<>>
    /\ execute_stop_callbacks
    /\ Goto(c, AfterStop(c))
    /\ UNCHANGED <<sessVars, restarting, restartHolder, log_capture_handle,
                   tasks, histVars>>
    /\ UNCHANGED <<logVars, cfgVars, stdinVars, wsVars>>

\* process_lock.take(), kill().await, wait().await under the write lock,
\* then execute_stop_callbacks
StopKill(c) ==
    /\ frame[c].pc = "stop_kill"
    /\ ProcessLockFree
    /\ procs' = Kill(process)
    /\ process' = None
    /\ execute_stop_callbacks
    /\ Goto(c, AfterStop(c))
    /\ UNCHANGED <<sessVars, restarting, restartHolder, logs_buffer,
                   log_capture_handle, tasks, histVars>>
    /\ UNCHANGED <<logVars, cfgVars, stdinVars, wsVars>>

\* --------------------------------------- SessionManager::create_response
\* let connected = *self.connected.read().await
RespConnected(c) ==
    /\ frame[c].pc = "resp_connected"
    /\ frame' = [frame EXCEPT ![c].respConnected = connected,
                              ![c].pc = "resp_started"]
    /\ UNCHANGED <<sessVars, coreVars, envVars, result, histVars>>
    /\ UNCHANGED auxVars

\* let started = self.xray_core.started().await; only connect adds the token
RespStarted(c) ==
    /\ frame[c].pc = "resp_started"
    /\ ProcessLockFree
    /\ \E running \in BOOLEAN :
           /\ started(running)
           /\ Return(c, Snapshot(frame[c].respConnected, running,
                                 IF frame[c].op = "connect" THEN frame[c].newId
                                 ELSE None))
    /\ latest' = CASE frame[c].op = "connect" -> frame[c].newId
                  [] frame[c].op = "disconnect" -> None
                  [] OTHER -> latest
    /\ UNCHANGED <<sessVars, coreVars, tasks, nextId, calls, retired, owner>>
    /\ UNCHANGED auxVars

\* -------------------------------------- SessionManager::start / restart
\* client_ip_lock.ok_or(NoClientIp)?, then XrayConfig::new(..).map_err(ConfigError)?
GetIp(c) ==
    /\ frame[c].pc = "get_ip"
    /\ IF client_ip = None
       THEN Return(c, Failure("NoClientIp", <<>>))
       ELSE IF ~ConfigParses(frame[c].config)
            THEN Return(c, Failure("ConfigError", <<>>))
            ELSE Goto(c, IF frame[c].op = "restart" THEN "rs_lock"
                         ELSE "start_probe")
    /\ UNCHANGED <<sessVars, coreVars, envVars, histVars>>
    /\ UNCHANGED auxVars

\* ------------------------------------------------------ XrayCore::restart
\* let mut restarting_lock = self.restarting.write().await: the guard is
\* held until restart returns; if *restarting_lock { return Ok(()) }
RestartLock(c) ==
    /\ frame[c].pc = "rs_lock"
    /\ restartHolder = None
    /\ IF restarting
       THEN /\ Goto(c, "poll")
            /\ UNCHANGED <<restarting, restartHolder>>
       ELSE /\ restarting' = TRUE
            /\ restartHolder' = c
            /\ Goto(c, "stop_probe")
    /\ UNCHANGED <<sessVars, process, logs_buffer, log_capture_handle, envVars,
                   histVars>>
    /\ UNCHANGED auxVars

\* a return from restart that drops the guard and leaves the flag set
RestartUnlock_KeepsFlag(c) ==
    /\ frame[c].pc \in {"rs_unlock_ok", "rs_unlock_err"}
    /\ restarting' = restarting
    /\ restartHolder' = None
    /\ IF frame[c].pc = "rs_unlock_ok"
       THEN Goto(c, "poll")
       ELSE Return(c, Failure("CoreError", <<>>))
    /\ UNCHANGED <<sessVars, process, logs_buffer, log_capture_handle, envVars,
                   histVars>>
    /\ UNCHANGED auxVars

\* *restarting_lock = false; result: the guard is dropped on return
RestartUnlock(c) ==
    /\ frame[c].pc \in {"rs_unlock_ok", "rs_unlock_err"}
    /\ restarting' = FALSE
    /\ restartHolder' = None
    /\ IF frame[c].pc = "rs_unlock_ok"
       THEN Goto(c, "poll")
       ELSE Return(c, Failure("CoreError", <<>>))
    /\ UNCHANGED <<sessVars, process, logs_buffer, log_capture_handle, envVars,
                   histVars>>
    /\ UNCHANGED auxVars

\* -------------------------------------------------------- XrayCore::start
\* an Err of the supervisor's start: CoreError for start, the inner result
\* of restart
StartFails(c) ==
    IF frame[c].op = "restart"
    THEN Goto(c, "rs_unlock_err")
    ELSE Return(c, Failure("CoreError", <<>>))

\* if self.started().await { return Err("Xray is started already") }
StartProbe(c) ==
    /\ frame[c].pc = "start_probe"
    /\ ProcessLockFree
    /\ \E running \in BOOLEAN :
           /\ started(running)
           /\ IF running THEN StartFails(c) ELSE Goto(c, "start_spawn")
    /\ UNCHANGED <<sessVars, coreVars, tasks, histVars>>
    /\ UNCHANGED auxVars

\* cmd.spawn()? and the write of the configuration to the child's stdin
StartSpawn(c) ==
    /\ frame[c].pc = "start_spawn"
    /\ Unspawned # {}
    /\ LET p == CHOOSE q \in Unspawned : \A r \in Unspawned : q <= r
       IN /\ procs' = [procs EXCEPT
                          ![p] = [FreshProc EXCEPT !.by = frame[c].token]]
          /\ frame' = [frame EXCEPT ![c].child = p, ![c].pc = "start_store"]
    /\ UNCHANGED <<sessVars, coreVars, tasks, result, histVars>>
    /\ UNCHANGED auxVars

\* cmd.spawn() returns an error: no child exists
StartSpawnError(c) ==
    /\ frame[c].pc = "start_spawn"
    /\ StartFails(c)
    /\ UNCHANGED <<sessVars, coreVars, envVars, histVars>>
    /\ UNCHANGED auxVars

\* *process_lock = Some(process): the child held before is dropped, not killed
StartStore(c) ==
    /\ frame[c].pc = "start_store"
    /\ ProcessLockFree
    /\ process' = frame[c].child
    /\ Goto(c, "start_capture")
    /\ UNCHANGED <<sessVars, restarting, restartHolder, logs_buffer,
                   log_capture_handle, envVars, histVars>>
    /\ UNCHANGED auxVars

\* start_log_capture: tokio::spawn the task, *handle_lock = Some(handle) (the
\* handle held before is dropped, its task detached); then
\* execute_start_callbacks
StartCapture(c) ==
    /\ frame[c].pc = "start_capture"
    /\ tasks' = [tasks EXCEPT ![frame[c].child] = [st |-> "spawned", rd |-> None]]
    /\ log_capture_handle' = frame[c].child
    /\ execute_start_callbacks
    /\ Goto(c, IF frame[c].op = "restart" THEN "rs_unlock_ok" ELSE "poll")
    /\ UNCHANGED <<sessVars, process, restarting, restartHolder, logs_buffer,
                   procs, histVars>>
    /\ UNCHANGED <<logVars, cfgVars, stdinVars, wsVars>>

\* ------------------------------------------- startup confirmation protocol
\* logs.iter().rev().take(10): the indices scanned, the newest first
ScanFrom(logs) == IF Len(logs) > ScanWindow THEN Len(logs) - ScanWindow + 1 ELSE 1
ScanHits(logs) == {i \in ScanFrom(logs)..Len(logs) : ContainsMarker(logs[i])}
ScanFound(logs) == ScanHits(logs) # {}

\* last_log after the scan: every scanned line is assigned in turn, so it is
\* the line the scan stopped at (the newest marker line, else the last scanned)
ScanLastLog(logs, prev) ==
    IF logs = <<>> THEN prev
    ELSE IF ScanFound(logs)
         THEN logs[CHOOSE i \in ScanHits(logs) : \A j \in ScanHits(logs) : j <= i]
         ELSE logs[ScanFrom(logs)]

\* one iteration of while start_time.elapsed() < timeout
Poll(c) ==
    /\ frame[c].pc = "poll"
    /\ frame[c].polls < MaxPolls
    /\ LET logs == get_all(logs_buffer)
       IN frame' = [frame EXCEPT
                       ![c].lastLog = ScanLastLog(logs, @),
                       ![c].newest = IF logs = <<>> THEN <<>>
                                     ELSE logs[Len(logs)],
                       ![c].pc = IF ScanFound(logs) THEN "resp_connected" ELSE @,
                       ![c].polls = IF ScanFound(logs) THEN @ ELSE @ + 1]
    /\ UNCHANGED <<sessVars, coreVars, envVars, result, histVars>>
    /\ UNCHANGED auxVars

\* the window has elapsed (the first check of the loop is within it)
PollTimeout(c) ==
    /\ frame[c].pc = "poll"
    /\ frame[c].polls >= 1
    /\ Goto(c, "final_probe")
    /\ UNCHANGED <<sessVars, coreVars, envVars, histVars>>
    /\ UNCHANGED auxVars

\* a final check that reports failure whenever the window has elapsed
FinalProbe_Strict(c) ==
    /\ frame[c].pc = "final_probe"
    /\ Return(c, Failure("StartupFailed", frame[c].lastLog))
    /\ UNCHANGED <<sessVars, coreVars, envVars, histVars>>
    /\ UNCHANGED auxVars

\* if !self.xray_core.started().await { return Err(StartupFailed(last_log)) }
FinalProbe(c) ==
    /\ frame[c].pc = "final_probe"
    /\ ProcessLockFree
    /\ \E running \in BOOLEAN :
           /\ started(running)
           /\ IF running
              THEN Goto(c, "resp_connected")
              ELSE Return(c, Failure("StartupFailed",
                                     frame[c].lastLog))
    /\ UNCHANGED <<sessVars, coreVars, tasks, histVars>>
    /\ UNCHANGED auxVars

\* ------------------------------------------------------------- behaviours
\* a step of the call in flight at caller c
Step(c) ==
    \/ Match(c)
    \/ ConnRead(c) \/ ConnProbe(c)
    \/ ConnWriteConnected(c) \/ ConnWriteIp(c) \/ ConnWriteSid(c)
    \/ DiscWriteSid(c) \/ DiscWriteIp(c)
    \/ DiscWriteConnected(c) \/ DiscProbe(c)
    \/ StopProbe(c) \/ StopAbort(c) \/ StopKill(c)
    \/ GetIp(c) \/ RestartLock(c) \/ RestartUnlock(c)
    \/ StartProbe(c) \/ StartSpawn(c) \/ StartSpawnError(c)
    \/ StartStore(c) \/ StartCapture(c)
    \/ Poll(c) \/ PollTimeout(c) \/ FinalProbe(c)
    \/ RespConnected(c) \/ RespStarted(c)

\* a step of log-capture task k
CaptureStep(k) ==
    \/ CaptureBegin(k)
    \/ \E raw \in StdoutLines : CaptureLine(k, raw)
    \/ CaptureEof(k)

\* no call is in flight
Quiescent == \A c \in Callers : frame[c].pc = "idle"

\* a handler issues a call while other calls may be in flight
OverlapCall(c) == calls < MaxOverlapCalls /\ CallAny(c)

\* a handler issues a call after every earlier call has returned
SeqCall(c) == calls < MaxCalls /\ Quiescent /\ CallAny(c)

\* requests are served concurrently: calls overlap
Next ==
    \/ \E c \in Callers : OverlapCall(c)
    \/ \E c \in Callers : Step(c)
    \/ \E k \in Pids : CaptureStep(k)

Spec == Init /\ [][Next]_vars

\* the controllers issue their requests one at a time; the capture tasks and
\* the core processes still run concurrently with the call in flight
NextSeq ==
    \/ \E c \in SeqCallers : SeqCall(c)
    \/ \E c \in Callers : Step(c)
    \/ \E k \in Pids : CaptureStep(k)

SpecSeq == Init /\ [][NextSeq]_vars

\* the stream of a child that is no longer alive ends
CaptureEofDead(k) == ~Alive(tasks[k].rd) /\ CaptureEof(k)

\* the runtime schedules every task that can run: a call in flight takes its
\* next step, a spawned capture task gets polled; nothing obliges a live core
\* process to write, to close its output or to exit
FairSeq ==
    /\ SpecSeq
    /\ \A c \in Callers : WF_vars(Step(c))
    /\ \A k \in Pids : WF_vars(CaptureBegin(k))
    /\ \A k \in Pids : WF_vars(CaptureEofDead(k))


\* the raw lines of a core process that also writes text other than the
\* marker line: "a" and "b" are two different texts
LogLines == StdoutLines \cup {<<"a">>, <<"b", " ">>}

\* a step of log-capture task k of such a core
CaptureStepLog(k) ==
    \/ CaptureBegin(k)
    \/ \E raw \in LogLines : CaptureLine(k, raw)
    \/ CaptureEof(k)

\* calls issued one at a time, to a core that writes any of LogLines
NextLog ==
    \/ \E c \in SeqCallers : SeqCall(c)
    \/ \E c \in Callers : Step(c)
    \/ \E k \in Pids : CaptureStepLog(k)

SpecLog == Init /\ [][NextLog]_vars

\* ------------------------------------------------- LogsBuffer on its own
\* the lines pushed
BufLines == {"a", "b"}

\* LogsBuffer::push(line) on a LogsBuffer of capacity max_size
BufPush(line) ==
    /\ Len(pushed) < MaxPushes
    /\ ring' = push(ring, ring_max_size, line)
    /\ pushed' = Append(pushed, line)
    /\ UNCHANGED <<sessVars, coreVars, envVars, callVars, histVars,
                   ring_max_size, tapVars>>
    /\ UNCHANGED <<cbVars, cfgVars, stdinVars, wsVars>>

NextBuf == \E line \in BufLines : BufPush(line)

\* a LogsBuffer of any capacity 1..MaxCap under any sequence of pushes
InitBuf ==
    /\ InitRest /\ InitConfig(EmptyDoc, {})
    /\ \E size \in 1..MaxCap : InitBuffer(size)

SpecBuf == InitBuf /\ [][NextBuf]_vars

\* ---------------------------------------------------- TempLogsManager
\* the taps created so far whose TempLogBuffer has not been dropped
LiveTaps == {id \in TapIds : id < next_id /\ id \notin dropped}

\* create_temp_buffer: draw the id, register a new empty buffer under it
create_temp_buffer ==
    /\ next_id < MaxTaps
    /\ next_id' = next_id + 1
    /\ tap_buffer' = [tap_buffer EXCEPT ![next_id] = <<>>]
    /\ temp_buffers' = temp_buffers \cup {next_id}
    /\ born' = [born EXCEPT ![next_id] = pushes]
    /\ UNCHANGED <<sessVars, coreVars, envVars, callVars, histVars, bufVars,
                   pushes, dropped, popped>>
    /\ UNCHANGED <<cbVars, cfgVars, stdinVars, wsVars>>

\* a loop body that never evicts
tap_push_NoEvict(buf, line) == Append(buf, line)

\* the body of push_to_all's loop: evict the oldest line of a full buffer,
\* then push_back
tap_push(buf, line) ==
    IF Len(buf) >= MaxTapLen THEN Append(Tail(buf), line) ELSE Append(buf, line)

\* a push_to_all that reaches only the tap registered first
push_to_all_First(bufs, registry, line) ==
    [id \in TapIds |->
        IF id \in registry /\ \A other \in registry : id <= other
        THEN tap_push(bufs[id], line)
        ELSE bufs[id]]

\* push_to_all: the line goes to every buffer of the registry
push_to_all(bufs, registry, line) ==
    [id \in TapIds |->
        IF id \in registry THEN tap_push(bufs[id], line) ELSE bufs[id]]

\* a call of push_to_all; the line of the n-th call is the number n
PushToAll ==
    /\ pushes < MaxTapPushes
    /\ pushes' = pushes + 1
    /\ tap_buffer' = push_to_all(tap_buffer, temp_buffers, pushes + 1)
    /\ UNCHANGED <<sessVars, coreVars, envVars, callVars, histVars, bufVars,
                   temp_buffers, next_id, born, dropped, popped>>
    /\ UNCHANGED <<cbVars, cfgVars, stdinVars, wsVars>>

\* what pop_front returns on an empty buffer (lines are the numbers 1, 2, ..)
NoLine == 0

\* the value pop_front returns on a tap's buffer, with the tap
pop_front(id, buf) ==
    [id |-> id, line |-> IF buf = <<>> THEN NoLine ELSE Head(buf)]

\* TempLogBuffer::pop_log: buffer.pop_front() on the tap's own buffer
pop_log(id) ==
    /\ id \in LiveTaps
    /\ Len(popped) < MaxPops
    /\ tap_buffer' = [tap_buffer EXCEPT ![id] =
                          IF @ = <<>> THEN <<>> ELSE Tail(@)]
    /\ popped' = Append(popped, pop_front(id, tap_buffer[id]))
    /\ UNCHANGED <<sessVars, coreVars, envVars, callVars, histVars, bufVars,
                   temp_buffers, next_id, pushes, born, dropped>>
    /\ UNCHANGED <<cbVars, cfgVars, stdinVars, wsVars>>

\* Drop for TempLogBuffer: manager.remove(&self.id)
drop(id) ==
    /\ id \in LiveTaps
    /\ temp_buffers' = temp_buffers \ {id}
    /\ dropped' = dropped \cup {id}
    /\ UNCHANGED <<sessVars, coreVars, envVars, callVars, histVars, bufVars,
                   next_id, tap_buffer, pushes, born, popped>>
    /\ UNCHANGED <<cbVars, cfgVars, stdinVars, wsVars>>

NextTaps ==
    \/ create_temp_buffer
    \/ PushToAll
    \/ \E id \in TapIds : pop_log(id)
    \/ \E id \in TapIds : drop(id)

SpecTaps == Init /\ [][NextTaps]_vars

\* --------------------------------------------- the supervisor beside taps
\* calls issued one at a time while taps are created and dropped; the capture
\* task holds the supervisor's main buffer only (logs_buffer_arc) and no
\* TempLogsManager
NextFeed ==
    \/ NextSeq
    \/ create_temp_buffer
    \/ \E id \in TapIds : drop(id)

SpecFeed == Init /\ [][NextFeed]_vars

\* ------------------------------------------ the supervisor with callbacks
\* calls issued one at a time while callbacks are registered
NextCb ==
    \/ NextSeq
    \/ on_start
    \/ on_stop

SpecCb == Init /\ [][NextCb]_vars

\* the runtime schedules every task that can run, as in FairSeq
FairCb ==
    /\ SpecCb
    /\ \A c \in Callers : WF_vars(Step(c))
    /\ \A k \in Pids : WF_vars(CaptureBegin(k))
    /\ \A k \in Pids : WF_vars(CaptureEofDead(k))

\* ------------------------------------------------- XrayConfig on its own
\* XrayConfig::new: apply_api on the parsed document; a later run is
\* XrayConfig::new on the document of the run before, with the same peer
\* address and allow-list
ApplyApi ==
    /\ cfg_runs < MaxRuns
    /\ xray_config' = apply_api(xray_config, inbounds_filter, PeerIp)
    /\ cfg_prev' = xray_config
    /\ cfg_runs' = cfg_runs + 1
    /\ UNCHANGED <<sessVars, coreVars, envVars, callVars, histVars, logVars,
                   cbVars, inbounds_filter, cfg_input, stdinVars, wsVars>>

NextCfg == ApplyApi

\* any input document whose top level is an object, with any allow-list
InitCfg ==
    /\ InitRest /\ InitBuffer(MaxLogs)
    /\ \E doc \in Docs, filter \in AllowLists : InitConfig(doc, filter)

SpecCfg == InitCfg /\ [][NextCfg]_vars

\* ------------------------------------------------- an abandoned restart
\* the future of a restart call is dropped while it is suspended at an await
\* between the write of the flag and its reset (the request's connection was
\* closed): its locals are dropped, the write guard with them; no code of
\* the call runs any more
Abandon(c) ==
    /\ frame[c].op = "restart"
    /\ restartHolder = c
    /\ frame' = [frame EXCEPT ![c] = IdleFrame]
    /\ restartHolder' = None
    /\ UNCHANGED <<sessVars, process, restarting, logs_buffer,
                   log_capture_handle, envVars, result, histVars>>
    /\ UNCHANGED auxVars

NextDrop ==
    \/ NextSeq
    \/ \E c \in Callers : Abandon(c)

\* calls issued one at a time, each restart may be abandoned
SpecDrop == Init /\ [][NextDrop]_vars

\* ------------------------------------------------- the log stream
\* logs_websocket up to its loop: the stream is refused unless its token is
\* the session token
WsOpen(t) ==
    /\ ws.pc = "closed"
    /\ ws' = [ws EXCEPT !.token = t,
                        !.pc = IF session_id = t THEN "check" ELSE "done"]
    /\ UNCHANGED <<sessVars, coreVars, envVars, callVars, histVars, logVars,
                   cbVars, cfgVars, stdinVars, ws_new>>

\* the head of a cycle: leave the loop unless the token is still the session
\* token, else take get_all() of the main buffer as the lines to send
WsCheck ==
    /\ ws.pc = "check"
    /\ IF session_id # ws.token
       THEN /\ ws' = [ws EXCEPT !.pc = "done"]
            /\ UNCHANGED ws_new
       ELSE /\ ws' = [ws EXCEPT !.pc = "send",
                                !.pending = get_all(logs_buffer),
                                !.cycles = @ + 1,
                                !.taken = Len(get_all(logs_buffer)),
                                !.fresh = IF ws.cycles = 0
                                          THEN Len(get_all(logs_buffer))
                                          ELSE ws_new]
            /\ ws_new' = 0
    /\ UNCHANGED <<sessVars, coreVars, envVars, callVars, histVars, logVars,
                   cbVars, cfgVars, stdinVars>>

\* socket.send of the next line of the snapshot: the line is sent, or the
\* send fails and the function returns
WsSend ==
    /\ ws.pc = "send" /\ ws.pending # <<>>
    /\ \E ok \in BOOLEAN :
           ws' = IF ok THEN [ws EXCEPT !.pending = Tail(@)]
                 ELSE [ws EXCEPT !.pc = "done", !.pending = <<>>]
    /\ UNCHANGED <<sessVars, coreVars, envVars, callVars, histVars, logVars,
                   cbVars, cfgVars, stdinVars, ws_new>>

\* sleep(200 ms) after the last line of the snapshot, then the next cycle
WsSleep ==
    /\ ws.pc = "send" /\ ws.pending = <<>>
    /\ ws.cycles < MaxCycles
    /\ ws' = [ws EXCEPT !.pc = "check"]
    /\ UNCHANGED <<sessVars, coreVars, envVars, callVars, histVars, logVars,
                   cbVars, cfgVars, stdinVars, ws_new>>

NextWs ==
    \/ NextSeq
    \/ \E t \in Tokens : WsOpen(t)
    \/ WsCheck
    \/ WsSend
    \/ WsSleep

\* calls issued one at a time, and one log stream
SpecWs == Init /\ [][NextWs]_vars

\* ------------------------------------------- the text written to the core
\* XrayCore::start from the rewrite of the log level to the write of the
\* serialized document to the spawned core's standard input
WriteStdin ==
    /\ core_stdin = <<>>
    /\ core_stdin' = to_json(xray_config, raise_log_level(config_log))
    /\ UNCHANGED <<sessVars, coreVars, envVars, callVars, histVars, logVars,
                   cbVars, cfgVars, config_log, wsVars>>

NextStdin == WriteStdin

\* the input documents of the runs that write a core's standard input
StdinDocs == {d \in Docs : /\ Len(d.inbounds.items) <= 1
                           /\ Len(d.routing.rules.items) <= 1}

\* a session start has built the XrayConfig of any input document whose top
\* level is an object: the document went through apply_api once, which
\* leaves the member log as it is
InitStdinRun ==
    /\ InitRest /\ InitBuffer(MaxLogs)
    /\ \E doc \in StdinDocs, filter \in AllowLists, log \in LogVals :
           /\ xray_config = apply_api(doc, filter, PeerIp)
           /\ inbounds_filter = filter
           /\ cfg_input = doc
           /\ cfg_prev = doc
           /\ cfg_runs = 1
           /\ config_log = log

SpecStdin == InitStdinRun /\ [][NextStdin]_vars

\* ------------------------------------------------------------ properties
\* the steps that call XrayCore::started
ProbeLabels == {"conn_probe", "disc_probe", "stop_probe", "start_probe",
                "final_probe", "resp_started"}
\* the steps of XrayCore::stop
StopLabels == {"stop_probe", "stop_abort", "stop_kill"}

AliveProcs == {p \in Pids : procs[p].alive}

\* C1: with calls issued one after the other, the token of the session is the
\* token of the connect that returned last with no disconnect since, it is
\* never a token that was replaced or cleared before, and a ping succeeds
\* only with that token: a ping with a retired token gets SessionMismatch
C1_PingOnlyLatestToken ==
    /\ [](Quiescent => session_id = latest)
    /\ [](session_id # None => session_id \notin retired)
    /\ [][\A c \in Callers :
            (frame[c].op = "ping" /\ frame[c].pc = "match" /\ frame'[c].pc = "idle")
            => /\ result'.kind \in {"ok", "SessionMismatch"}
               /\ result'.kind = "ok" =>
                      frame[c].token = latest /\ frame[c].token \notin retired
               /\ frame[c].token \in retired => result'.kind = "SessionMismatch"
         ]_vars

\* C1 witness: a ping with the token of a session that a later connect took
\* over was answered with SessionMismatch while the new session is active
C1_Witness ==
    /\ result.op = "ping" /\ result.kind = "SessionMismatch"
    /\ result.token \in retired
    /\ session_id # None /\ latest = session_id

\* C2: in every reachable state, session_token is Some iff connected is true
C2_TokenIffConnected == (session_id # None) <=> connected

\* C3: once two overlapping connect calls of different peers have returned,
\* the recorded peer address and the recorded token are those of one call
C3_WholeTriple ==
    (Quiescent /\ session_id # None /\ client_ip # None)
    => client_ip = PeerOf(owner[session_id])

\* C4: when a connect that was issued while a session was active and the core
\* process was running has returned, that core process is no longer alive and
\* the snapshot the connect returned says that the core is not running
C4_TakeoverStopsCore ==
    (result.op = "connect" /\ result.hadConn /\ result.hadProc # None)
    => /\ ~procs[result.hadProc].alive
       /\ result.kind = "response" /\ ~result.started

\* C4 witness: such a connect returned and its stop killed the core process
C4_Witness ==
    /\ result.op = "connect" /\ result.hadConn /\ result.hadProc # None
    /\ procs[result.hadProc].cause = "kill"
    /\ result.kind = "response" /\ ~result.started

\* C5: the snapshot a disconnect returns, and every status snapshot returned
\* while no connect has returned since, has connected = false and
\* core_running = false
C5_DisconnectSnapshot ==
    /\ result.op = "disconnect" =>
           result.kind = "response" /\ ~result.connected /\ ~result.started
    /\ (result.op = "status" /\ latest = None) =>
           result.kind = "response" /\ ~result.connected /\ ~result.started

\* C5 witness: a disconnect issued while the core process was running
\* returned, and the core process was killed
C5_Witness ==
    /\ result.op = "disconnect" /\ result.hadProc # None
    /\ procs[result.hadProc].cause = "kill"
    /\ ~result.connected /\ ~result.started

\* C6: every connect call and every disconnect call eventually returns
C6_ConnectDisconnectReturn ==
    \A c \in Callers :
        (frame[c].op \in {"connect", "disconnect"}) ~> (frame[c].pc = "idle")

\* C7: ping, start, stop and restart with a token that is not the session
\* token return SessionMismatch at their first step and change neither the
\* session fields, the process handle, the restart guard, the log buffer,
\* the capture tasks nor any process
C7_MismatchNoEffect ==
    [][\A c \in Callers :
          (/\ frame[c].pc = "match"
           /\ frame[c].token # session_id
           /\ frame'[c] # frame[c])
          => /\ frame'[c] = IdleFrame
             /\ result'.caller = c /\ result'.kind = "SessionMismatch"
             /\ UNCHANGED <<sessVars, coreVars, envVars>>
      ]_vars

\* C7 witness: a stop with a stale token was refused while a session is
\* active and the core process is running
C7_Witness ==
    /\ result.op = "stop" /\ result.kind = "SessionMismatch"
    /\ session_id # None /\ result.token # session_id
    /\ Alive(process)

\* C8: a call of is_running never waits for another task: whenever a call is
\* about to probe the process handle, no capture task holds the process lock
C8_ProbeNeverWaits ==
    \A c \in Callers : frame[c].pc \in ProbeLabels => ProcessLockFree

\* C9: a supervisor stop called while the core process is alive eventually
\* returns
C9_StopReturns ==
    \A c \in Callers :
        (frame[c].pc = "stop_probe" /\ Alive(process))
        ~> (frame[c].pc \notin StopLabels)

\* C10: at most one spawned core process is alive, and an alive process is
\* the one the handle refers to (or the child a start is about to store)
C10_OneLiveProcess ==
    /\ Cardinality(AliveProcs) <= 1
    /\ \A p \in AliveProcs :
           \/ p = process
           \/ \E c \in Callers : frame[c].pc = "start_store" /\ frame[c].child = p

\* C11, its part on effects: the check of a supervisor start that finds the
\* core process running makes start return CoreError and changes neither the
\* session fields, the supervisor's fields, the capture tasks nor any process
C11_RunningStartNoEffect ==
    [][\A c \in Callers :
          (/\ frame[c].op = "start" /\ frame[c].pc = "start_probe"
           /\ frame'[c] # frame[c]
           /\ process # None /\ procs'[process].alive)
          => /\ frame'[c] = IdleFrame
             /\ result'.caller = c /\ result'.kind = "CoreError"
             /\ UNCHANGED <<sessVars, coreVars, envVars>>
      ]_vars

\* C11: a supervisor start called while the core process is running returns
\* CoreError at once, without waiting, and changes nothing
C11_StartWhileRunning ==
    /\ C11_RunningStartNoEffect
    /\ \A c \in Callers :
           (frame[c].op = "start" /\ frame[c].pc = "start_probe"
            /\ Alive(process))
           ~> (frame[c].pc # "start_probe")

\* C12: a restart that reaches the supervisor's restart while another restart
\* is in flight is not blocked: whenever a restart is about to take the
\* restart guard, no other call holds it
C12_SecondRestartNotBlocked ==
    \A c \in Callers :
        (frame[c].op = "restart" /\ frame[c].pc = "rs_lock")
        => restartHolder = None

\* C13: start and restart with the session token and a configuration text
\* that is not well-formed JSON or whose top level is not an object return
\* ConfigError and change neither the session fields, the supervisor's
\* fields (log buffer included), the capture tasks nor any process
C13_BadConfigNoEffect ==
    [][\A c \in Callers :
          (/\ frame[c].op \in {"start", "restart"} /\ frame[c].pc = "get_ip"
           /\ (~WellFormed(frame[c].config) \/ ~TopLevelObject(frame[c].config))
           /\ frame'[c] # frame[c])
          => /\ frame'[c] = IdleFrame
             /\ result'.caller = c /\ result'.kind = "ConfigError"
             /\ UNCHANGED <<sessVars, coreVars, envVars>>
      ]_vars

\* C13 witness: a restart with a bad configuration was refused with
\* ConfigError and the core process that ran before is still running
C13_Witness ==
    /\ result.op = "restart" /\ result.kind = "ConfigError"
    /\ result.hadProc # None /\ result.hadProc = process
    /\ Alive(process)

\* C14: a start call whose poll has found the marker line while the core
\* process is alive eventually returns
C14_MarkerStartReturns ==
    \A c \in Callers :
        (/\ frame[c].op = "start" /\ frame[c].pc = "resp_connected"
         /\ ContainsMarker(frame[c].lastLog) /\ Alive(process))
        ~> (frame[c].pc = "idle")

\* C15: the text StartupFailed carries is the newest line the log buffer
\* held at the last poll, and the text a call is about to carry is empty
\* when no line of the process this call started was captured (no task has
\* taken its standard output)
C15_StartupFailedText ==
    /\ result.kind = "StartupFailed" => result.text = result.newest
    /\ \A c \in Callers :
           (/\ frame[c].pc = "final_probe" /\ frame[c].child # None
            /\ ~procs[frame[c].child].taken)
           => frame[c].lastLog = <<>>

\* C16: the final check of start and restart returns StartupFailed only when
\* the core process has exited; when the process is alive the call goes on
\* to build a success snapshot; nothing else returns StartupFailed
C16_FailedOnlyIfExited ==
    [][/\ \A c \in Callers :
             (/\ frame[c].pc = "final_probe" /\ frame'[c] # frame[c]
              /\ frame[c].child # None)
             => /\ frame'[c] = IdleFrame =>
                       /\ result'.kind = "StartupFailed"
                       /\ ~procs'[frame[c].child].alive
                /\ procs'[frame[c].child].alive =>
                       frame'[c].pc = "resp_connected"
       /\ (result'.kind = "StartupFailed" /\ result' # result) =>
              \E c \in Callers : frame[c].pc = "final_probe"
      ]_vars

\* C16 witness: a start returned a success snapshot with the core running
\* although no marker line was ever captured
C16_Witness ==
    /\ result.op = "start" /\ result.kind = "response" /\ result.started
    /\ logs_buffer = <<>>
    /\ Alive(process)

\* C17: every start or restart call that has spawned the core process
\* eventually returns
C17_StartReturns ==
    \A c \in Callers :
        (frame[c].op \in {"start", "restart"} /\ frame[c].child # None)
        ~> (frame[c].pc = "idle")

\* the last n elements of a sequence, in order
LastN(seq, n) == SubSeq(seq, Len(seq) - n + 1, Len(seq))

Min(a, b) == IF a <= b THEN a ELSE b

\* C18: after any n pushes into a LogsBuffer of capacity c >= 1, get_all is
\* the last min(n, c) pushed lines, oldest first
C18_LastLinesInOrder ==
    get_all(ring) = LastN(pushed, Min(Len(pushed), ring_max_size))

\* C18 witness: more lines than the capacity were pushed into a buffer of
\* capacity 2 or more, and the lines it holds differ
C18_Witness ==
    /\ ring_max_size >= 2
    /\ Len(pushed) > ring_max_size
    /\ Len(ring) = ring_max_size
    /\ ring[1] # ring[2]

\* C19: a step changes the supervisor's log buffer only by appending a line,
\* and the oldest line leaves only in an append to a buffer at capacity; no
\* step of a session call changes it
C19_OnlyCapacityEviction ==
    [][/\ \/ logs_buffer' = logs_buffer
           \/ /\ Len(logs_buffer) < MaxLogs
              /\ Len(logs_buffer') = Len(logs_buffer) + 1
              /\ SubSeq(logs_buffer', 1, Len(logs_buffer)) = logs_buffer
           \/ /\ Len(logs_buffer) = MaxLogs
              /\ Len(logs_buffer') = MaxLogs
              /\ SubSeq(logs_buffer', 1, MaxLogs - 1) = Tail(logs_buffer)
       /\ frame' # frame => logs_buffer' = logs_buffer
      ]_vars

\* C19 witness: the buffer is full, and a disconnect that killed the core
\* process has returned
C19_Witness ==
    /\ Len(logs_buffer) = MaxLogs
    /\ result.op = "disconnect" /\ result.hadProc # None
    /\ procs[result.hadProc].cause = "kill"

\* the lines of a tap are consecutive pushes: each is the push after the one
\* before it
Consecutive(buf) == \A i \in 1..(Len(buf) - 1) : buf[i + 1] = buf[i] + 1

\* C20: a push_to_all reaches every live tap; a tap holds only lines pushed
\* after its creation; a dropped tap is not in the registry and its buffer
\* never changes again; a pop or a drop on one tap changes no other tap
C20_TapsIndependent ==
    /\ [](\A id \in TapIds :
            /\ \A i \in 1..Len(tap_buffer[id]) : tap_buffer[id][i] > born[id]
            /\ Consecutive(tap_buffer[id])
            /\ id \in dropped => id \notin temp_buffers
            /\ id \in LiveTaps => id \in temp_buffers)
    /\ [][/\ pushes' # pushes =>
              \A id \in LiveTaps :
                  /\ tap_buffer'[id] # <<>>
                  /\ tap_buffer'[id][Len(tap_buffer'[id])] = pushes'
          /\ \A id \in dropped : tap_buffer'[id] = tap_buffer[id]
          /\ (pushes' = pushes /\ next_id' = next_id) =>
                 \A id, other \in TapIds :
                     (tap_buffer'[id] # tap_buffer[id] /\ other # id)
                     => tap_buffer'[other] = tap_buffer[other]
          /\ dropped' # dropped => tap_buffer' = tap_buffer
         ]_vars

\* C20 witness: a tap created after the first push holds a later line, and
\* the tap created before it was dropped holding an earlier line
C20_Witness ==
    \E old, new \in TapIds :
        /\ old \in dropped /\ tap_buffer[old] # <<>>
        /\ new \in LiveTaps /\ born[new] > born[old]
        /\ tap_buffer[new] # <<>>
        /\ tap_buffer[old][1] <= born[new]

\* the positions of a list whose element satisfies Test
Where(seq, Test(_)) == {i \in 1..Len(seq) : Test(seq[i])}

\* C22: after the transformer has run twice on an input document, the
\* document has exactly one inbound tagged "API_INBOUND" and exactly one
\* routing rule whose outboundTag is "API", the management rule
C22_OneManagementEntry ==
    cfg_runs = 2 =>
        /\ Cardinality(Where(xray_config.inbounds.items,
                             LAMBDA e : e.tag = "API_INBOUND")) = 1
        /\ Cardinality(Where(xray_config.routing.rules.items,
                             LAMBDA r : r.outboundTag = "API")) = 1
        /\ \A i \in 1..Len(xray_config.routing.rules.items) :
               xray_config.routing.rules.items[i].outboundTag = "API"
               => xray_config.routing.rules.items[i] = api_rule(PeerIp)

\* C23: the second run of the transformer, on the document of its first run
\* with the same peer address and allow-list, changes nothing
C23_StableOnOwnOutput ==
    cfg_runs = 2 => xray_config = cfg_prev

\* an input inbound the transformer has to keep: not the old management
\* inbound, and with a non-empty allow-list either untagged or allowed
C24_Kept(e, filter) ==
    /\ ~(e.obj /\ e.protocol = "dokodemo-door" /\ e.tag = "API_INBOUND")
    /\ filter # {} => (e.tag = NoTag \/ e.tag \in filter)

\* C24: when the input's inbounds is a list, the transformed inbounds is the
\* management inbound followed by the input inbounds to keep, in their order;
\* with a non-empty allow-list no input inbound whose tag is not allowed is
\* left, with an empty one only the old management inbound is removed
C24_InboundsFiltered ==
    (cfg_runs >= 1 /\ cfg_prev.inbounds.kind = "list") =>
        /\ xray_config.inbounds =
               List(<<api_inbound>> \o
                    SelectSeq(cfg_prev.inbounds.items,
                              LAMBDA e : C24_Kept(e, inbounds_filter)))
        /\ inbounds_filter # {} =>
               \A i \in 2..Len(xray_config.inbounds.items) :
                   LET e == xray_config.inbounds.items[i]
                   IN e.tag = NoTag \/ e.tag \in inbounds_filter

\* C24 witness: with a non-empty allow-list, an input of a refused tagged
\* inbound followed by an allowed one was transformed into the management
\* inbound followed by the allowed one
C24_Witness ==
    /\ cfg_runs = 1 /\ inbounds_filter # {}
    /\ Len(cfg_input.inbounds.items) = 2
    /\ cfg_input.inbounds.items[1].tag = "trojan-in"
    /\ cfg_input.inbounds.items[2].tag = "vmess-in"
    /\ Len(xray_config.inbounds.items) = 2
    /\ xray_config.inbounds.items[2].tag = "vmess-in"

\* C25: whatever the input held under inbounds, the transformed inbounds is
\* a list whose first element is the management inbound
C25_ManagementInboundFirst ==
    cfg_runs >= 1 =>
        /\ xray_config.inbounds.kind = "list"
        /\ xray_config.inbounds.items # <<>>
        /\ xray_config.inbounds.items[1] = api_inbound

\* C26: whatever the input held under routing and routing.rules, the
\* transformed routing.rules is a list whose first element is the management
\* rule
C26_ManagementRuleFirst ==
    cfg_runs >= 1 =>
        /\ xray_config.routing.kind = "object"
        /\ xray_config.routing.rules.kind = "list"
        /\ xray_config.routing.rules.items # <<>>
        /\ xray_config.routing.rules.items[1] = api_rule(PeerIp)

\* C30: when the input's routing.rules is a list, the transformed rules are
\* the management rule followed by the input rules in their order, without
\* those whose outboundTag is the tag of the input's api object; all of them
\* when the input has no api tag
C30_RulesFiltered ==
    (/\ cfg_runs >= 1
     /\ cfg_prev.routing.kind = "object" /\ cfg_prev.routing.rules.kind = "list")
    => LET rules == cfg_prev.routing.rules.items
           hasTag == cfg_prev.api.kind = "object" /\ cfg_prev.api.tag # NoTag
       IN xray_config.routing.rules.items =
              <<api_rule(PeerIp)>> \o
              (IF hasTag
               THEN SelectSeq(rules, LAMBDA r : r.outboundTag # cfg_prev.api.tag)
               ELSE rules)

\* C30 witness: an input whose api tag is "direct" and whose rules are one
\* that targets "direct" followed by one that targets "API" was transformed
\* into the management rule followed by the rule that targets "API"
C30_Witness ==
    /\ cfg_runs = 1
    /\ cfg_input.api.kind = "object" /\ cfg_input.api.tag = "direct"
    /\ Len(cfg_input.routing.rules.items) = 2
    /\ cfg_input.routing.rules.items[1].outboundTag = "direct"
    /\ cfg_input.routing.rules.items[2].outboundTag = "API"
    /\ cfg_input.routing.rules.items[2] # api_rule(PeerIp)
    /\ Len(xray_config.routing.rules.items) = 2
    /\ xray_config.routing.rules.items[2] = cfg_input.routing.rules.items[2]

\* C21: a step that appends a line to the supervisor's main log buffer
\* appends that line to every tap that is live
C21_LineReachesLiveTaps ==
    [][logs_buffer' # logs_buffer =>
          \A id \in LiveTaps :
              /\ tap_buffer'[id] # <<>>
              /\ tap_buffer'[id][Len(tap_buffer'[id])]
                     = logs_buffer'[Len(logs_buffer')]
      ]_vars

\* C27: a start callback registered when a start has stored its process is
\* eventually invoked, and a stop callback registered when a stop is about
\* to kill a running process is eventually invoked; no call returns an error
\* other than those of the session and the supervisor
C27_CallbacksInvoked ==
    /\ \A i \in CallbackIds : \A c \in Callers :
           (i <= on_start_callbacks /\ frame[c].pc = "start_capture")
           ~> (start_invoked[i] >= 1)
    /\ \A i \in CallbackIds : \A c \in Callers :
           (i <= on_stop_callbacks /\ frame[c].pc = "stop_kill"
            /\ Alive(process))
           ~> (stop_invoked[i] >= 1)

\* the steps of a call that are inside XrayCore::restart
RestartLabels == {"stop_probe", "stop_abort", "stop_kill", "start_probe",
                  "start_spawn", "start_store", "start_capture",
                  "rs_unlock_ok", "rs_unlock_err"}

\* C28: the restarting flag is set only while a restart call is inside the
\* supervisor's restart; the step by which the supervisor's restart returns,
\* with success or with the error of its inner start, leaves it false; and a
\* restart that takes the guard performs the stop and start
C28_GuardClearedOnReturn ==
    /\ [](restarting =>
              /\ restartHolder # None
              /\ frame[restartHolder].op = "restart"
              /\ frame[restartHolder].pc \in RestartLabels)
    /\ [][\A c \in Callers :
              /\ (/\ frame[c].pc \in {"rs_unlock_ok", "rs_unlock_err"}
                  /\ frame'[c] # frame[c]) => ~restarting'
              /\ (frame[c].pc = "rs_lock" /\ frame'[c] # frame[c])
                 => frame'[c].pc = "stop_probe"
         ]_vars

\* C28 witness: a restart returned the error of its inner start, and the
\* restart called after it is performing its stop
C28_Witness ==
    /\ result.op = "restart" /\ result.kind = "CoreError"
    /\ \E c \in Callers :
           /\ frame[c].op = "restart" /\ frame[c].pc = "stop_probe"
           /\ restartHolder = c /\ restarting

\* C29: no start or restart call returns NoClientIp (the error is raised
\* only after the call's token has matched the session token)
C29_NeverNoClientIp ==
    result.kind # "NoClientIp"

\* a line without leading or trailing whitespace that is not empty
Trimmed(line) == line # <<>> /\ line[1] # " " /\ line[Len(line)] # " "

ActiveTasks == {k \in Pids : tasks[k].st \in {"spawned", "reading"}}

\* C32: at most one capture task is active, and a capture task reads the
\* standard output of the process it was spawned for, never that of a
\* process started later
C32_OneCaptureTask ==
    /\ Cardinality(ActiveTasks) <= 1
    /\ \A k \in Pids : tasks[k].st = "reading" => tasks[k].rd = k

\* the positions of the members of a serialized document that have this key
MembersAt(text, key) == {i \in 1..Len(text) : text[i][1] = key}

\* the serialized document has exactly one member with this key, and its
\* value is this one
HasMember(text, key, value) ==
    /\ Cardinality(MembersAt(text, key)) = 1
    /\ \A i \in MembersAt(text, key) : text[i][2] = value

\* C33: the text written to the core's standard input is the transformed
\* document, member for member, except that a log object whose logLevel is
\* "none" or "error" carries "warning" instead; any other log value, an
\* absent log member and every other member are written as they are
C33_StdinIsConfigButLogLevel ==
    core_stdin # <<>> =>
        /\ HasMember(core_stdin, "api", xray_config.api)
        /\ HasMember(core_stdin, "stats", xray_config.stats)
        /\ IF xray_config.inbounds.kind = "absent"
           THEN MembersAt(core_stdin, "inbounds") = {}
           ELSE HasMember(core_stdin, "inbounds", xray_config.inbounds)
        /\ IF xray_config.routing.kind = "absent"
           THEN MembersAt(core_stdin, "routing") = {}
           ELSE HasMember(core_stdin, "routing", xray_config.routing)
        /\ IF config_log.kind = "absent"
           THEN MembersAt(core_stdin, "log") = {}
           ELSE IF config_log.kind = "object"
                   /\ config_log.logLevel \in {"none", "error"}
                THEN HasMember(core_stdin, "log",
                               [config_log EXCEPT !.logLevel = "warning"])
                ELSE HasMember(core_stdin, "log", config_log)
        /\ Len(core_stdin) <= 5

C33_Witness ==
    /\ config_log.kind = "object" /\ config_log.logLevel = "error"
    /\ config_log.access = "file"
    /\ HasMember(core_stdin, "log",
                 [kind |-> "object", logLevel |-> "warning", access |-> "file"])

\* the lines a tap's pop_log calls returned, in call order: the history
\* without the calls on other taps and the calls that returned nothing
Returned(id) ==
    SelectSeq(popped, LAMBDA call : call.id = id /\ call.line # NoLine)

\* C34: a tap never holds more lines than its capacity, a push to a full tap
\* evicts its oldest line, a pop_log returns the oldest line the tap holds
\* and removes it, so that successive calls return lines delivered to the
\* tap in delivery order, and a pop_log on an empty tap returns nothing and
\* changes neither the tap nor the registry
C34_TapBoundedPopsInOrder ==
    /\ [](\A id \in TapIds :
             /\ Len(tap_buffer[id]) <= MaxTapLen
             /\ \A i \in 1..Len(Returned(id)) :
                    /\ Returned(id)[i].line \in (born[id] + 1)..pushes
                    /\ \A j \in 1..(i - 1) :
                           Returned(id)[j].line < Returned(id)[i].line
             /\ \A i \in 1..Len(tap_buffer[id]) :
                    \A j \in 1..Len(Returned(id)) :
                        Returned(id)[j].line < tap_buffer[id][i])
    /\ [][/\ pushes' # pushes =>
                 \A id \in temp_buffers :
                     tap_buffer'[id] =
                         IF Len(tap_buffer[id]) = MaxTapLen
                         THEN Append(Tail(tap_buffer[id]), pushes')
                         ELSE Append(tap_buffer[id], pushes')
          /\ popped' # popped =>
                 \E id \in TapIds :
                     /\ temp_buffers' = temp_buffers
                     /\ \A other \in TapIds \ {id} :
                            tap_buffer'[other] = tap_buffer[other]
                     /\ IF tap_buffer[id] = <<>>
                        THEN /\ popped' = Append(popped,
                                              [id |-> id, line |-> NoLine])
                             /\ tap_buffer'[id] = <<>>
                        ELSE /\ popped' =
                                    Append(popped,
                                           [id |-> id,
                                            line |-> Head(tap_buffer[id])])
                             /\ tap_buffer'[id] = Tail(tap_buffer[id])
         ]_vars

\* C34 witness: a tap that was full when a line arrived lost its oldest line;
\* the first pop_log returned the line after it, the second the next one
C34_Witness ==
    \E id \in TapIds :
        /\ Len(Returned(id)) = 2
        /\ Returned(id)[1].line = born[id] + 2
        /\ Returned(id)[2].line = born[id] + 3

\* C35: a start or restart that left its polling loop on the marker (the
\* line it stopped at contains the marker) spawned a process in this call,
\* and a capture task has taken that process's standard output: no line of
\* the process can be in the buffer otherwise
C35_MarkerOfOwnProcess ==
    \A c \in Callers :
        (/\ frame[c].op \in {"start", "restart"}
         /\ frame[c].pc = "resp_connected"
         /\ ContainsMarker(frame[c].lastLog))
        => /\ frame[c].child # None
           /\ procs[frame[c].child].taken

\* C36: when no call is in flight and the session is not connected, the
\* core is not running
C36_DisconnectedNotRunning ==
    (Quiescent /\ ~connected) => ~Alive(process)

\* C37: when no call is in flight and the core runs, the call that spawned
\* it carried the token that is the session token now
C37_RunningCoreOfCurrentToken ==
    (Quiescent /\ Alive(process)) => procs[process].by = session_id

\* C38: when no restart call is in flight the supervisor's restarting flag
\* is false
C38_FlagFalseOutsideRestart ==
    (\A c \in Callers : frame[c].op # "restart") => ~restarting

\* C39: after a transformation of a document whose inbounds member is a
\* list, exactly one inbound of the result is tagged "API_INBOUND"
C39_OneInboundTaggedApi ==
    (cfg_runs >= 1 /\ cfg_prev.inbounds.kind = "list")
    => Cardinality(Where(xray_config.inbounds.items,
                         LAMBDA e : e.tag = "API_INBOUND")) = 1

\* C40: a cycle of a log stream sends no line that an earlier cycle of the
\* stream sent: the lines it takes from the main buffer are at most the
\* lines appended since the cycle before
C40_EachLineSentOnce == ws.taken <= ws.fresh

====
